---- MODULE Spec2Model ----
(***************************************************************************)
(* State-machine model of the solana-poker program: one hand of poker      *)
(* (one PokerGame account and its PlayerSeat accounts).                    *)
(*                                                                         *)
(* Every instruction handler is one action.  A handler that returns an     *)
(* error aborts its transaction, and the runtime then discards every       *)
(* account write of that transaction; the validation part of each handler  *)
(* is therefore an operator XxxErr(args) giving the error the call returns *)
(* in the current state ("Ok" when it succeeds), and the action Xxx(args)  *)
(* is enabled exactly when XxxErr(args) = "Ok".                            *)
(*                                                                         *)
(* Encrypted values are opaque handles.  The three capabilities of the     *)
(* encrypted-value program are modelled symbolically: a handle is a term   *)
(* built from ingested ciphertexts, random draws and homomorphic sums.     *)
(***************************************************************************)
EXTENDS Integers, Naturals, Sequences, FiniteSets, TLC

VARIABLES
    table,              \* PokerTable configuration of the hand (read only)
    stage,              \* game.stage
    pot,                \* game.pot
    current_bet,        \* game.current_bet
    dealer_position,    \* game.dealer_position
    action_on,          \* game.action_on
    players_remaining,  \* game.players_remaining
    players_acted,      \* game.players_acted
    player_count,       \* game.player_count
    folded_mask,        \* game.folded_mask
    all_in_mask,        \* game.all_in_mask
    blinds_posted,      \* game.blinds_posted
    last_raiser,        \* game.last_raiser
    last_raise_amount,  \* game.last_raise_amount
    card_pool,          \* game.card_pool, slots 0..14
    encrypted_offset,   \* game.encrypted_offset
    offset_batch,       \* game.offset_batch
    cards_offset_mask,  \* game.cards_offset_mask
    position_offset,    \* game.position_offset
    cards_submitted,    \* game.cards_submitted
    offset_applied,     \* game.offset_applied
    cards_dealt_count,  \* game.cards_dealt_count
    community_revealed, \* game.community_revealed
    seats,              \* the PlayerSeat accounts created so far, by seat index
    allowed,            \* decrypt permissions granted: pairs <<handle, party>>
    rand_draws,         \* number of e_rand draws made so far
    early_steps,        \* betting instructions that succeeded before post_blinds
    submitted_batches,  \* batch indexes submit_cards has accepted in this hand
    blinded_batches,    \* batch indexes apply_offset_batch has accepted in this hand
    last                \* the last instruction that succeeded, with its inputs

\* The fields of the PokerGame account.
game ==
    <<stage, pot, current_bet, dealer_position, action_on, players_remaining,
      players_acted, player_count, folded_mask, all_in_mask, blinds_posted,
      last_raiser, last_raise_amount, card_pool, encrypted_offset,
      offset_batch, cards_offset_mask, position_offset, cards_submitted,
      offset_applied, cards_dealt_count, community_revealed>>

\* History of the hand: not part of any account.
history == <<early_steps, submitted_batches, blinded_batches>>

vars == <<table, game, seats, allowed, rand_draws, history, last>>

betting_fields ==
    <<pot, current_bet, dealer_position, action_on, players_remaining,
      players_acted, folded_mask, all_in_mask, blinds_posted, last_raiser,
      last_raise_amount>>

dealing_fields ==
    <<card_pool, encrypted_offset, offset_batch, cards_offset_mask,
      position_offset, cards_submitted, offset_applied, rand_draws>>

(***************************************************************************)
(* Program constants and model bounds                                      *)
(***************************************************************************)

\* Slots of the card pool: 0..9 hole cards, 10..14 community cards.
POOL_SIZE == 15

HOLE_SLOTS == 10

SUBMIT_BATCH_SIZE == 5

BATCH_SIZE == 5

\* Value of cards_offset_mask with bits 0..14 set.
ALL_CARDS_MASK == 32767

\* offset_batch value meaning "complete".
BATCH_COMPLETE == 255

\* Largest raise_amount a player submits.
MaxRaise == 2

\* Betting instructions (player_action, advance_stage) the callers send
\* before post_blinds has run.
MaxEarly == 1

\* Actions taken in one betting round without a raise before the caller
\* stops sending player_action (players_acted is a u8 that only grows).
MaxActed == 3

Stages == {"Waiting", "PreFlop", "Flop", "Turn", "River", "Showdown", "Finished"}

(***************************************************************************)
(* Bitmask arithmetic                                                      *)
(***************************************************************************)

\* (mask >> i) & 1 == 1
Bit(mask, i) == (mask \div (2 ^ i)) % 2 = 1

\* mask | (1 << i)
SetBit(mask, i) == IF Bit(mask, i) THEN mask ELSE mask + 2 ^ i

\* a | b on the low 16 bits
RECURSIVE OrFrom(_, _, _)
OrFrom(a, b, i) ==
    IF i > 15 THEN 0
    ELSE (IF Bit(a, i) \/ Bit(b, i) THEN 2 ^ i ELSE 0) + OrFrom(a, b, i + 1)

BitOr(a, b) == OrFrom(a, b, 0)

\* a & b on the low 16 bits
RECURSIVE AndFrom(_, _, _)
AndFrom(a, b, i) ==
    IF i > 15 THEN 0
    ELSE (IF Bit(a, i) /\ Bit(b, i) THEN 2 ^ i ELSE 0) + AndFrom(a, b, i + 1)

BitAnd(a, b) == AndFrom(a, b, 0)

Min(a, b) == IF a < b THEN a ELSE b

(***************************************************************************)
(* Encrypted-value handles                                                 *)
(***************************************************************************)

\* Euint128::default()
DefaultHandle == <<"default">>

\* new_euint128(ciphertext, input_type): the handle of an ingested ciphertext
NewEuint128(ciphertext) == <<"ciphertext", ciphertext>>

\* e_rand: the n-th fresh random encrypted value
ERand(n) == <<"rand", n>>

\* e_add(a, b): the handle of the homomorphic sum
EAdd(a, b) == <<"add", a, b>>

IsRawCiphertext(h) == h[1] = "ciphertext"

IsSum(h) == h[1] = "add"

\* h is an ingested ciphertext combined with offset exactly once
IsBlindedOnce(h, offset) == IsSum(h) /\ IsRawCiphertext(h[2]) /\ h[3] = offset

(***************************************************************************)
(* Inputs                                                                  *)
(***************************************************************************)

\* Table configurations: player_count, small_blind, buy_in_min, buy_in_max.
Table(n, sb, lo, hi) ==
    [player_count |-> n, small_blind |-> sb, buy_in_min |-> lo, buy_in_max |-> hi]

\* Largest number of seats a hand can hold: two hole-card slots per seat.
MAX_SEATS == 5

\* Fewest players start_game accepts.
MIN_PLAYERS == 2

\* Tables of the dealing specification.
DealTables == {Table(n, 1, 2, 2) : n \in MIN_PLAYERS..3}

\* The ciphertext batches the operator may submit for a batch index: a
\* ciphertext of its own for every slot.
CardInputs(batch_index) ==
    { [i \in 0..(SUBMIT_BATCH_SIZE - 1) |-> batch_index * SUBMIT_BATCH_SIZE + i] }

\* batch_index arguments tried (3 is out of range).
BatchIndexes == 0..3

\* Values of Clock::slot when generate_offset runs.
Slots == {2, 9, 258}

\* The party seated at a seat index, named as the player when it is dealt.
PlayerAt(seat_index) == <<"player", seat_index>>

\* buy_in arguments tried: the table's range and one value below it.
BuyIns == (table.buy_in_min - 1)..table.buy_in_max

\* Numbers of remaining accounts passed to deal_cards.
RemainingLens == {0, 2, 4}

(***************************************************************************)
(* start_game: the state of a new hand                                     *)
(***************************************************************************)

\* The fields start_game writes that the dealing protocol does not own.
GameStart(t) ==
    /\ table = t
    /\ stage = "Waiting"
    /\ pot = 0
    /\ current_bet = 0
    /\ dealer_position = 0
    /\ action_on = 0
    /\ players_remaining = t.player_count
    /\ players_acted = 0
    /\ player_count = t.player_count
    /\ folded_mask = 0
    /\ all_in_mask = 0
    /\ blinds_posted = 0
    /\ last_raiser = 0
    /\ last_raise_amount = 0
    /\ community_revealed = 0
    /\ cards_dealt_count = 0
    /\ seats = << >>
    /\ allowed = {}
    /\ early_steps = 0

\* The dealing-protocol fields as start_game writes them.
DealingStart ==
    /\ card_pool = [i \in 0..(POOL_SIZE - 1) |-> DefaultHandle]
    /\ encrypted_offset = DefaultHandle
    /\ offset_batch = 0
    /\ cards_offset_mask = 0
    /\ position_offset = 0
    /\ cards_submitted = FALSE
    /\ offset_applied = FALSE
    /\ rand_draws = 0
    /\ submitted_batches = {}
    /\ blinded_batches = {}
    /\ last = [op |-> "start_game", arg |-> 0, act |-> "", amt |-> 0]

HandStart(t) == GameStart(t) /\ DealingStart

(***************************************************************************)
(* submit_cards                                                            *)
(***************************************************************************)

SubmitCardsErr(batch_index) ==
    IF stage # "Waiting" THEN "InvalidGameStage"
    ELSE IF ~(batch_index < 3) THEN "InvalidBatchIndex"
    ELSE IF BitAnd(community_revealed, 2 ^ batch_index) # 0 THEN "CardsAlreadySubmitted"
    ELSE "Ok"

\* community_revealed after the batch bit is set and the "all three" test.
SubmittedMaskAfter(mask, batch_index) ==
    LET marked == BitOr(mask, 2 ^ batch_index)
    IN  IF marked = 7 THEN 0 ELSE marked

SubmitCards(batch_index, encrypted_cards) ==
    /\ SubmitCardsErr(batch_index) = "Ok"
    /\ LET start_idx == batch_index * SUBMIT_BATCH_SIZE
           marked == BitOr(community_revealed, 2 ^ batch_index)
       IN  /\ card_pool' =
                [i \in 0..(POOL_SIZE - 1) |->
                    IF i >= start_idx /\ i < start_idx + SUBMIT_BATCH_SIZE
                    THEN NewEuint128(encrypted_cards[i - start_idx])
                    ELSE card_pool[i]]
           /\ community_revealed' = SubmittedMaskAfter(community_revealed, batch_index)
           /\ cards_submitted' = IF marked = 7 THEN TRUE ELSE cards_submitted
    /\ last' = [op |-> "submit_cards", arg |-> batch_index, act |-> "", amt |-> 0]
    /\ UNCHANGED <<table, stage, betting_fields, player_count, encrypted_offset,
                   offset_batch, cards_offset_mask, position_offset, offset_applied,
                   cards_dealt_count, seats, allowed, rand_draws>>

(***************************************************************************)
(* apply_offset_batch                                                      *)
(***************************************************************************)

\* apply_offset_batch without the test of the batch order.
ApplyOffsetBatchErrAnyOrder(batch_index) ==
    IF ~cards_submitted THEN "CardsNotSubmitted"
    ELSE IF offset_applied THEN "OffsetAlreadyApplied"
    ELSE IF stage # "Waiting" THEN "InvalidGameStage"
    ELSE IF ~(batch_index < 3) THEN "InvalidBatchIndex"
    ELSE "Ok"

ApplyOffsetBatchErr(batch_index) ==
    IF ~cards_submitted THEN "CardsNotSubmitted"
    ELSE IF offset_applied THEN "OffsetAlreadyApplied"
    ELSE IF stage # "Waiting" THEN "InvalidGameStage"
    ELSE IF ~(batch_index < 3) THEN "InvalidBatchIndex"
    ELSE IF batch_index = 1 /\ ~(offset_batch >= 1) THEN "BatchOutOfOrder"
    ELSE IF batch_index = 2 /\ ~(offset_batch >= 2) THEN "BatchOutOfOrder"
    ELSE "Ok"

\* The slots of a blinding batch: start_card .. end_card - 1.
BatchSlots(batch_index) ==
    LET start_card == batch_index * BATCH_SIZE
        end_card == IF (batch_index + 1) * BATCH_SIZE < 15
                    THEN (batch_index + 1) * BATCH_SIZE ELSE 15
    IN  start_card..(end_card - 1)

is_card_offset(mask, card_index) == Bit(mask, card_index)

mark_card_offset(mask, card_index) == SetBit(mask, card_index)

all_cards_offset(mask) == mask = ALL_CARDS_MASK

\* cards_offset_mask after every slot of the set is marked.
RECURSIVE MarkAll(_, _)
MarkAll(mask, slots) ==
    IF slots = {} THEN mask
    ELSE LET i == CHOOSE x \in slots : TRUE
         IN  MarkAll(mark_card_offset(mask, i), slots \ {i})

\* The batch loop's treatment of one slot without the skip.
BlindSlotNoSkip(handle, offset, already) == EAdd(handle, offset)

\* The batch loop's treatment of one slot: skipped when already marked.
BlindSlot(handle, offset, already) ==
    IF already THEN handle ELSE EAdd(handle, offset)

\* offset_batch after the loop without the completion marker.
BatchProgressNoMarker(batch_index, mask_after) == batch_index + 1

\* offset_batch written after the loop.
BatchProgress(batch_index, mask_after) ==
    IF batch_index = 2 /\ all_cards_offset(mask_after)
    THEN BATCH_COMPLETE ELSE batch_index + 1

\* The draw test without the progress marker: every batch-0 call draws.
DrawsOffsetEveryBatch0(batch_index) == batch_index = 0

\* Whether this call draws the encrypted offset.
DrawsOffset(batch_index) == batch_index = 0 /\ offset_batch = 0

ApplyOffsetBatch(batch_index) ==
    /\ ApplyOffsetBatchErr(batch_index) = "Ok"
    /\ LET draw == DrawsOffset(batch_index)
           offset == IF draw THEN ERand(rand_draws + 1) ELSE encrypted_offset
           mask_after == MarkAll(cards_offset_mask, BatchSlots(batch_index))
       IN  /\ rand_draws' = IF draw THEN rand_draws + 1 ELSE rand_draws
           /\ encrypted_offset' = offset
           /\ card_pool' =
                [i \in 0..(POOL_SIZE - 1) |->
                    IF i \in BatchSlots(batch_index)
                    THEN BlindSlot(card_pool[i], offset,
                                   is_card_offset(cards_offset_mask, i))
                    ELSE card_pool[i]]
           /\ cards_offset_mask' = mask_after
           /\ offset_batch' = BatchProgress(batch_index, mask_after)
           /\ offset_applied' =
                IF batch_index = 2 /\ all_cards_offset(mask_after)
                THEN TRUE ELSE offset_applied
    /\ last' = [op |-> "apply_offset_batch", arg |-> batch_index, act |-> "", amt |-> 0]
    /\ UNCHANGED <<table, stage, betting_fields, player_count, position_offset,
                   cards_submitted, cards_dealt_count, community_revealed,
                   seats, allowed>>

(***************************************************************************)
(* generate_offset                                                         *)
(***************************************************************************)

\* generate_offset without the test that the position offset is unset.
GenerateOffsetErrNoRepeatTest ==
    IF stage # "Waiting" THEN "InvalidGameStage"
    ELSE IF ~cards_submitted THEN "CardsNotSubmitted"
    ELSE IF ~offset_applied THEN "OffsetNotApplied"
    ELSE "Ok"

\* The account constraint on the stage is checked before the handler runs.
GenerateOffsetErr ==
    IF stage # "Waiting" THEN "InvalidGameStage"
    ELSE IF ~cards_submitted THEN "CardsNotSubmitted"
    ELSE IF ~offset_applied THEN "OffsetNotApplied"
    ELSE IF ~(position_offset = 0) THEN "PositionOffsetAlreadySet"
    ELSE "Ok"

\* The offset without the shift that keeps it away from 0.
SlotOffsetNoShift(slot) == (slot % 256) % 10

\* (slot.to_le_bytes()[0] % 10) + 1
SlotOffset(slot) == ((slot % 256) % 10) + 1

GenerateOffset(slot) ==
    /\ GenerateOffsetErr = "Ok"
    /\ position_offset' = SlotOffset(slot)
    /\ last' = [op |-> "generate_offset", arg |-> slot, act |-> "", amt |-> 0]
    /\ UNCHANGED <<table, stage, betting_fields, player_count, card_pool,
                   encrypted_offset, offset_batch, cards_offset_mask,
                   cards_submitted, offset_applied, cards_dealt_count,
                   community_revealed, seats, allowed, rand_draws>>

(***************************************************************************)
(* deal_cards                                                              *)
(***************************************************************************)

\* deal_cards' validation without the init constraint on the seat account.
DealCardsErrSeatReused(seat_index, buy_in) ==
    IF ~cards_submitted THEN "CardsNotSubmitted"
    ELSE IF ~offset_applied THEN "OffsetNotApplied"
    ELSE IF stage # "Waiting" THEN "InvalidGameStage"
    ELSE IF ~(seat_index < player_count) THEN "PlayerNotAtTable"
    ELSE IF ~(buy_in >= table.buy_in_min /\ buy_in <= table.buy_in_max) THEN "InvalidBuyIn"
    ELSE IF ~(cards_dealt_count < player_count) THEN "CardsAlreadyDealt"
    ELSE "Ok"

\* The init constraint on the seat account fails when the seat exists.
DealCardsErr(seat_index, buy_in) ==
    IF seat_index \in DOMAIN seats THEN "AccountAlreadyInUse"
    ELSE IF ~cards_submitted THEN "CardsNotSubmitted"
    ELSE IF ~offset_applied THEN "OffsetNotApplied"
    ELSE IF stage # "Waiting" THEN "InvalidGameStage"
    ELSE IF ~(seat_index < player_count) THEN "PlayerNotAtTable"
    ELSE IF ~(buy_in >= table.buy_in_min /\ buy_in <= table.buy_in_max) THEN "InvalidBuyIn"
    ELSE IF ~(cards_dealt_count < player_count) THEN "CardsAlreadyDealt"
    ELSE "Ok"

\* The slot of a seat's card without the rotation.
CardIdxNoRotation(seat_index, j, offset) == seat_index * 2 + j

\* card_1_idx (j = 0) and card_2_idx (j = 1) of a seat.
CardIdx(seat_index, j, offset) == ((seat_index * 2 + j) + offset) % 10

\* The permissions the two conditional allow calls grant.
Grants(card_1_handle, card_2_handle, player, remaining_len) ==
    (IF remaining_len >= 2 THEN {<<card_1_handle, player>>} ELSE {})
    \cup (IF remaining_len >= 4 THEN {<<card_2_handle, player>>} ELSE {})

\* The PlayerSeat account as deal_cards initialises it.
NewSeat(seat_index, player, buy_in, card_1_handle, card_2_handle) ==
    [player |-> player, seat_index |-> seat_index, chips |-> buy_in,
     hole_card_1 |-> card_1_handle, hole_card_2 |-> card_2_handle,
     current_bet |-> 0, total_bet |-> 0, is_folded |-> FALSE,
     is_all_in |-> FALSE, has_acted |-> FALSE]

DealCards(seat_index, buy_in, player, remaining_len) ==
    /\ DealCardsErr(seat_index, buy_in) = "Ok"
    /\ LET card_1_handle == card_pool[CardIdx(seat_index, 0, position_offset)]
           card_2_handle == card_pool[CardIdx(seat_index, 1, position_offset)]
       IN  /\ seats' =
                [s \in DOMAIN seats \cup {seat_index} |->
                    IF s = seat_index
                    THEN NewSeat(seat_index, player, buy_in, card_1_handle, card_2_handle)
                    ELSE seats[s]]
           /\ allowed' = allowed \cup Grants(card_1_handle, card_2_handle, player, remaining_len)
    /\ cards_dealt_count' = cards_dealt_count + 1
    /\ stage' = IF cards_dealt_count + 1 = player_count THEN "PreFlop" ELSE stage
    /\ last' = [op |-> "deal_cards", arg |-> seat_index, act |-> "", amt |-> remaining_len]
    /\ UNCHANGED <<table, betting_fields, player_count, dealing_fields, community_revealed>>

(***************************************************************************)
(* The dealing protocol                                                    *)
(***************************************************************************)

Init == \E t \in DealTables : HandStart(t)

Submit ==
    /\ \E b \in BatchIndexes : \E cards \in CardInputs(b) :
          /\ SubmitCards(b, cards)
          /\ submitted_batches' = submitted_batches \cup {b}
    /\ UNCHANGED <<early_steps, blinded_batches>>

Blind ==
    /\ \E b \in BatchIndexes :
          /\ ApplyOffsetBatch(b)
          /\ blinded_batches' = blinded_batches \cup {b}
    /\ UNCHANGED <<early_steps, submitted_batches>>

RevealPosition ==
    /\ \E slot \in Slots : GenerateOffset(slot)
    /\ UNCHANGED history

Assign ==
    /\ \E s \in 0..MAX_SEATS : \E b \in BuyIns :
          \E n \in RemainingLens : DealCards(s, b, PlayerAt(s), n)
    /\ UNCHANGED history

Next == Submit \/ Blind \/ RevealPosition \/ Assign

Spec == Init /\ [][Next]_vars

(***************************************************************************)
(* Position reveal and assignment, for every table size                    *)
(***************************************************************************)

\* Tables of the assignment specification: every legal player count.
AssignTables == {Table(n, 1, 2, 2) : n \in MIN_PLAYERS..MAX_SEATS}

\* Values of Clock::slot tried: every residue modulo 10, and slots whose
\* low byte differs from the slot.
AssignSlots == (0..9) \cup {255, 258}

\* The dealing-protocol fields once three submit_cards calls and three
\* apply_offset_batch calls have succeeded in order.
Blinded ==
    /\ card_pool = [i \in 0..(POOL_SIZE - 1) |-> EAdd(NewEuint128(i), ERand(1))]
    /\ encrypted_offset = ERand(1)
    /\ offset_batch = BATCH_COMPLETE
    /\ cards_offset_mask = ALL_CARDS_MASK
    /\ position_offset = 0
    /\ cards_submitted = TRUE
    /\ offset_applied = TRUE
    /\ rand_draws = 1
    /\ submitted_batches = {0, 1, 2}
    /\ blinded_batches = {0, 1, 2}
    /\ last = [op |-> "apply_offset_batch", arg |-> 2, act |-> "", amt |-> 0]

InitAssign == \E t \in AssignTables : GameStart(t) /\ Blinded

RevealAnyPosition ==
    /\ \E slot \in AssignSlots : GenerateOffset(slot)
    /\ UNCHANGED history

AssignGranted ==
    /\ \E s \in 0..MAX_SEATS : \E b \in BuyIns : DealCards(s, b, PlayerAt(s), 4)
    /\ UNCHANGED history

NextAssign == RevealAnyPosition \/ AssignGranted

SpecAssign == InitAssign /\ [][NextAssign]_vars

(***************************************************************************)
(* Seat status                                                             *)
(***************************************************************************)

is_folded(seat) == Bit(folded_mask, seat)

is_all_in(seat) == Bit(all_in_mask, seat)

is_active(seat) == ~is_folded(seat) /\ ~is_all_in(seat)

active_player_count == Cardinality({i \in 0..(player_count - 1) : is_active(i)})

\* The scan that takes the next seat whether it can act or not.
ScanActiveNoSkip(seat, checked, folded, all_in) == seat

\* The bounded scan for a seat that can act: at most player_count probes
\* from seat, evaluated against the masks given.
RECURSIVE ScanActive(_, _, _, _)
ScanActive(seat, checked, folded, all_in) ==
    IF ~(checked < player_count) THEN seat
    ELSE IF ~Bit(folded, seat) /\ ~Bit(all_in, seat) THEN seat
    ELSE ScanActive((seat + 1) % player_count, checked + 1, folded, all_in)

(***************************************************************************)
(* post_blinds                                                             *)
(***************************************************************************)

\* post_blinds' validation without the test that no blind is posted yet.
PostBlindsErrRepeatable(sb, bb) ==
    IF sb \notin DOMAIN seats \/ bb \notin DOMAIN seats THEN "AccountNotInitialized"
    ELSE IF seats[sb].seat_index # (dealer_position + 1) % player_count THEN "InvalidSeatIndex"
    ELSE IF seats[bb].seat_index # (dealer_position + 2) % player_count THEN "InvalidSeatIndex"
    ELSE IF stage # "PreFlop" THEN "InvalidGameStage"
    ELSE "Ok"

\* sb and bb are the seat accounts passed; the account constraints are
\* checked before the handler runs.
PostBlindsErr(sb, bb) ==
    IF sb \notin DOMAIN seats \/ bb \notin DOMAIN seats THEN "AccountNotInitialized"
    ELSE IF seats[sb].seat_index # (dealer_position + 1) % player_count THEN "InvalidSeatIndex"
    ELSE IF seats[bb].seat_index # (dealer_position + 2) % player_count THEN "InvalidSeatIndex"
    ELSE IF stage # "PreFlop" THEN "InvalidGameStage"
    ELSE IF ~(blinds_posted = 0) THEN "BlindsAlreadyPosted"
    ELSE "Ok"

\* The seat after a blind that is not taken from its stack.
PostBlindNoDeduct(seat, amount) ==
    [seat EXCEPT !.current_bet = amount, !.total_bet = amount, !.has_acted = FALSE]

\* The seat after it posts amount as a blind.
PostBlind(seat, amount) ==
    [seat EXCEPT !.chips = seat.chips - amount, !.current_bet = amount,
                 !.total_bet = amount, !.has_acted = FALSE]

PostBlinds(sb, bb) ==
    /\ PostBlindsErr(sb, bb) = "Ok"
    /\ LET small_blind == table.small_blind
           big_blind == small_blind * 2
           sb_amount == Min(small_blind, seats[sb].chips)
           bb_amount == Min(big_blind, seats[bb].chips)
       IN  /\ seats' = [seats EXCEPT ![sb] = PostBlind(seats[sb], sb_amount),
                                     ![bb] = PostBlind(seats[bb], bb_amount)]
           /\ pot' = (pot + sb_amount) + bb_amount
           /\ blinds_posted' = SetBit(SetBit(blinds_posted, seats[sb].seat_index),
                                      seats[bb].seat_index)
           /\ current_bet' = bb_amount
           /\ last_raise_amount' = bb_amount
           /\ last_raiser' = seats[bb].seat_index
           /\ action_on' = ScanActive((seats[bb].seat_index + 1) % player_count, 0,
                                      folded_mask, all_in_mask)
           /\ players_acted' = 0
    /\ last' = [op |-> "post_blinds", arg |-> bb, act |-> "", amt |-> 0]
    /\ UNCHANGED <<table, stage, dealer_position, players_remaining, player_count,
                   folded_mask, all_in_mask, dealing_fields, cards_dealt_count,
                   community_revealed, allowed>>

(***************************************************************************)
(* player_action                                                           *)
(***************************************************************************)

\* The action byte decoded; "Invalid" for a byte above 4.
BetAction(action) ==
    CASE action = 0 -> "Fold"
      [] action = 1 -> "Check"
      [] action = 2 -> "Call"
      [] action = 3 -> "Raise"
      [] action = 4 -> "AllIn"
      [] OTHER -> "Invalid"

\* game.current_bet.saturating_sub(player_seat.current_bet)
AmountToCall(seat) ==
    IF current_bet > seat.current_bet THEN current_bet - seat.current_bet ELSE 0

\* The least raise that forgets the last raise of the round.
MinRaiseForgetsLast == IF last_raise_amount > 0 THEN 0 ELSE current_bet

MinRaise == IF last_raise_amount > 0 THEN last_raise_amount ELSE current_bet

\* player_action's validation without the test of the turn.
PlayerActionErrAnySeat(s, action, raise_amount) ==
    IF s \notin DOMAIN seats THEN "AccountNotInitialized"
    ELSE IF BetAction(action) = "Invalid" THEN "InvalidBetAmount"
    ELSE IF is_folded(seats[s].seat_index) THEN "PlayerFolded"
    ELSE IF is_all_in(seats[s].seat_index) THEN "PlayerAlreadyActed"
    ELSE IF stage \in {"Waiting", "Showdown", "Finished"} THEN "InvalidGameStage"
    ELSE IF BetAction(action) = "Check" /\ ~(AmountToCall(seats[s]) = 0) THEN "CannotCheck"
    ELSE IF BetAction(action) = "Call" /\ ~(AmountToCall(seats[s]) <= seats[s].chips)
        THEN "InsufficientChips"
    ELSE IF BetAction(action) = "Raise" /\ ~(raise_amount >= MinRaise) THEN "RaiseTooSmall"
    ELSE IF BetAction(action) = "Raise"
            /\ ~(AmountToCall(seats[s]) + raise_amount <= seats[s].chips)
        THEN "InsufficientChips"
    ELSE "Ok"

PlayerActionErr(s, action, raise_amount) ==
    IF s \notin DOMAIN seats THEN "AccountNotInitialized"
    ELSE IF BetAction(action) = "Invalid" THEN "InvalidBetAmount"
    ELSE IF seats[s].seat_index # action_on THEN "NotYourTurn"
    ELSE IF is_folded(seats[s].seat_index) THEN "PlayerFolded"
    ELSE IF is_all_in(seats[s].seat_index) THEN "PlayerAlreadyActed"
    ELSE IF stage \in {"Waiting", "Showdown", "Finished"} THEN "InvalidGameStage"
    ELSE IF BetAction(action) = "Check" /\ ~(AmountToCall(seats[s]) = 0) THEN "CannotCheck"
    ELSE IF BetAction(action) = "Call" /\ ~(AmountToCall(seats[s]) <= seats[s].chips)
        THEN "InsufficientChips"
    ELSE IF BetAction(action) = "Raise" /\ ~(raise_amount >= MinRaise) THEN "RaiseTooSmall"
    ELSE IF BetAction(action) = "Raise"
            /\ ~(AmountToCall(seats[s]) + raise_amount <= seats[s].chips)
        THEN "InsufficientChips"
    ELSE "Ok"

\* The chips the action moves from the seat's stack to its bet and the pot.
ChipsMoved(seat, act, raise_amount) ==
    CASE act = "Call" -> AmountToCall(seat)
      [] act = "Raise" -> AmountToCall(seat) + raise_amount
      [] act = "AllIn" -> seat.chips
      [] OTHER -> 0

\* The seat account after the action.
SeatAfter(seat, act, raise_amount) ==
    LET moved == ChipsMoved(seat, act, raise_amount)
    IN  [seat EXCEPT !.chips = seat.chips - moved,
                     !.current_bet = seat.current_bet + moved,
                     !.total_bet = seat.total_bet + moved,
                     !.is_folded = IF act = "Fold" THEN TRUE ELSE seat.is_folded,
                     !.is_all_in = IF act = "AllIn" THEN TRUE ELSE seat.is_all_in,
                     !.has_acted = TRUE]

\* Only a Raise opens a new bet.
IsRaiseByRaiseOnly(seat, act, raise_amount) == act = "Raise"

\* Whether the action opens a new bet the other seats must respond to.
IsRaise(seat, act, raise_amount) ==
    \/ act = "Raise"
    \/ act = "AllIn" /\ seat.current_bet + seat.chips > current_bet

\* The pot after the action.
PotAfter(seat, act, raise_amount) == pot + ChipsMoved(seat, act, raise_amount)

\* The stage after the action without the jump to Showdown.
StageAfterNoShortcut(act, remaining) == stage

\* The stage after the action: a Fold that leaves one player moves the
\* hand to Showdown.
StageAfter(act, remaining) ==
    IF act = "Fold" /\ remaining = 1 THEN "Showdown" ELSE stage

\* advance_action without the scan: the turn passes to the next seat.
advance_action_no_scan(start, folded, all_in) == (start + 1) % player_count

\* advance_action: the next seat that can act after start, evaluated
\* against the masks the action has just written.
advance_action(start, folded, all_in) ==
    ScanActive((start + 1) % player_count, 0, folded, all_in)

PlayerAction(s, action, raise_amount) ==
    /\ PlayerActionErr(s, action, raise_amount) = "Ok"
    /\ LET seat == seats[s]
           seat_index == seat.seat_index
           act == BetAction(action)
           after == SeatAfter(seat, act, raise_amount)
           raised == IsRaise(seat, act, raise_amount)
           folded == IF act = "Fold" THEN SetBit(folded_mask, seat_index) ELSE folded_mask
           all_in == IF act = "AllIn" THEN SetBit(all_in_mask, seat_index) ELSE all_in_mask
           remaining == IF act = "Fold" THEN players_remaining - 1 ELSE players_remaining
       IN  /\ seats' = [seats EXCEPT ![s] = after]
           /\ folded_mask' = folded
           /\ all_in_mask' = all_in
           /\ players_remaining' = remaining
           /\ stage' = StageAfter(act, remaining)
           /\ pot' = PotAfter(seat, act, raise_amount)
           /\ current_bet' = IF raised THEN after.current_bet ELSE current_bet
           /\ last_raiser' = IF raised THEN seat_index ELSE last_raiser
           /\ last_raise_amount' =
                IF act = "Raise" THEN raise_amount
                ELSE IF raised THEN after.current_bet - current_bet
                ELSE last_raise_amount
           /\ players_acted' = (IF raised THEN 0 ELSE players_acted) + 1
           /\ action_on' = advance_action(action_on, folded, all_in)
           /\ last' = [op |-> "player_action", arg |-> s, act |-> act,
                      amt |-> IF act = "Raise" THEN raise_amount ELSE 0]
    /\ UNCHANGED <<table, dealer_position, player_count, blinds_posted, dealing_fields,
                   cards_dealt_count, community_revealed, allowed>>

(***************************************************************************)
(* advance_stage                                                           *)
(***************************************************************************)

\* advance_stage's validation without the test for Finished.
AdvanceStageErrWaitingOnly ==
    IF stage = "Waiting" THEN "InvalidGameStage" ELSE "Ok"

AdvanceStageErr ==
    IF stage \in {"Waiting", "Finished"} THEN "InvalidGameStage" ELSE "Ok"

\* GameStage::next with the Turn left out.
NextStageSkipsTurn(s) ==
    CASE s = "Waiting" -> "PreFlop"
      [] s = "PreFlop" -> "Flop"
      [] s = "Flop" -> "River"
      [] s = "Turn" -> "River"
      [] s = "River" -> "Showdown"
      [] s = "Showdown" -> "Finished"
      [] OTHER -> "None"

\* GameStage::next (Finished has no successor)
NextStage(s) ==
    CASE s = "Waiting" -> "PreFlop"
      [] s = "PreFlop" -> "Flop"
      [] s = "Flop" -> "Turn"
      [] s = "Turn" -> "River"
      [] s = "River" -> "Showdown"
      [] s = "Showdown" -> "Finished"
      [] OTHER -> "None"

\* community_revealed after the stage's cards are revealed.
Reveal(mask, next_stage) ==
    CASE next_stage = "Flop" -> BitOr(mask, 7)
      [] next_stage = "Turn" -> BitOr(mask, 8)
      [] next_stage = "River" -> BitOr(mask, 16)
      [] OTHER -> mask

\* The raw write into a passed seat account: current_bet and has_acted.
ResetSeat(seat) == [seat EXCEPT !.current_bet = 0, !.has_acted = FALSE]

\* advance_stage carried out without its validation.
AdvanceStageUnchecked(passed) ==
    /\ IF players_remaining = 1
       THEN /\ stage' = "Showdown"
            /\ UNCHANGED <<seats, community_revealed, current_bet, players_acted,
                           last_raiser, last_raise_amount, action_on>>
       ELSE /\ seats' = [s \in DOMAIN seats |->
                            IF s \in passed THEN ResetSeat(seats[s]) ELSE seats[s]]
            /\ community_revealed' = Reveal(community_revealed, NextStage(stage))
            /\ current_bet' = 0
            /\ players_acted' = 0
            /\ last_raiser' = 0
            /\ last_raise_amount' = 0
            /\ action_on' = ScanActive((dealer_position + 1) % player_count, 0,
                                       folded_mask, all_in_mask)
            /\ stage' = NextStage(stage)
    /\ last' = [op |-> "advance_stage", arg |-> Cardinality(passed), act |-> "", amt |-> 0]
    /\ UNCHANGED <<table, pot, dealer_position, players_remaining, player_count,
                   folded_mask, all_in_mask, blinds_posted, dealing_fields,
                   cards_dealt_count, allowed>>

\* passed: the seat accounts given as remaining accounts.
AdvanceStage(passed) ==
    /\ AdvanceStageErr = "Ok"
    /\ IF players_remaining = 1
       THEN /\ stage' = "Showdown"
            /\ UNCHANGED <<seats, community_revealed, current_bet, players_acted,
                           last_raiser, last_raise_amount, action_on>>
       ELSE /\ seats' = [s \in DOMAIN seats |->
                            IF s \in passed THEN ResetSeat(seats[s]) ELSE seats[s]]
            /\ community_revealed' = Reveal(community_revealed, NextStage(stage))
            /\ current_bet' = 0
            /\ players_acted' = 0
            /\ last_raiser' = 0
            /\ last_raise_amount' = 0
            /\ action_on' = ScanActive((dealer_position + 1) % player_count, 0,
                                       folded_mask, all_in_mask)
            /\ stage' = NextStage(stage)
    /\ last' = [op |-> "advance_stage", arg |-> Cardinality(passed), act |-> "", amt |-> 0]
    /\ UNCHANGED <<table, pot, dealer_position, players_remaining, player_count,
                   folded_mask, all_in_mask, blinds_posted, dealing_fields,
                   cards_dealt_count, allowed>>

(***************************************************************************)
(* The betting rounds                                                      *)
(***************************************************************************)

\* Tables of the betting specification.
BetTables == {Table(2, 1, 2, 3), Table(3, 1, 2, 2)}

\* The dealing-protocol fields once three submit_cards calls, three
\* apply_offset_batch calls and generate_offset(slot) have succeeded in order.
Revealed(slot) ==
    /\ card_pool = [i \in 0..(POOL_SIZE - 1) |-> EAdd(NewEuint128(i), ERand(1))]
    /\ encrypted_offset = ERand(1)
    /\ offset_batch = BATCH_COMPLETE
    /\ cards_offset_mask = ALL_CARDS_MASK
    /\ position_offset = SlotOffset(slot)
    /\ cards_submitted = TRUE
    /\ offset_applied = TRUE
    /\ rand_draws = 1
    /\ submitted_batches = {0, 1, 2}
    /\ blinded_batches = {0, 1, 2}
    /\ last = [op |-> "generate_offset", arg |-> slot, act |-> "", amt |-> 0]

InitBet == \E t \in BetTables : GameStart(t) /\ Revealed(2)

\* Whether the callers still send a betting instruction in this state.
BetAllowed == blinds_posted # 0 \/ early_steps < MaxEarly

EarlyAfter == IF blinds_posted = 0 THEN early_steps + 1 ELSE early_steps

PostTheBlinds ==
    /\ \E sb, bb \in 0..(MAX_SEATS - 1) : PostBlinds(sb, bb)
    /\ UNCHANGED history

Act ==
    /\ BetAllowed /\ players_acted < MaxActed
    /\ \E s \in 0..(MAX_SEATS - 1) : \E action \in 0..4 : \E raise_amount \in 0..MaxRaise :
          PlayerAction(s, action, raise_amount)
    /\ early_steps' = EarlyAfter
    /\ UNCHANGED <<submitted_batches, blinded_batches>>

Advance ==
    /\ BetAllowed
    /\ \E passed \in {{}, DOMAIN seats} : AdvanceStage(passed)
    /\ early_steps' = EarlyAfter
    /\ UNCHANGED <<submitted_batches, blinded_batches>>

NextBet == AssignGranted \/ PostTheBlinds \/ Act \/ Advance

SpecBet == InitBet /\ [][NextBet]_vars

(***************************************************************************)
(* The first betting round of a four-seat hand                             *)
(***************************************************************************)

\* The table of the four-seat specification.
RoundTable == Table(4, 1, 2, 2)

InitRound == GameStart(RoundTable) /\ Revealed(2)

NextRound == AssignGranted \/ PostTheBlinds \/ Act

SpecRound == InitRound /\ [][NextRound]_vars

(***************************************************************************)
(* Heads-up betting with blinds of 10 and 20                               *)
(***************************************************************************)

\* The table of the raise specification.
RaiseTable == Table(2, 10, 60, 60)

\* raise_amount arguments tried.
RaiseAmounts == {0, 10, 20}

InitRaise == GameStart(RaiseTable) /\ Revealed(2)

ActRaise ==
    /\ BetAllowed /\ players_acted < MaxActed
    /\ \E s \in 0..(MAX_SEATS - 1) : \E action \in 0..4 : \E raise_amount \in RaiseAmounts :
          PlayerAction(s, action, raise_amount)
    /\ early_steps' = EarlyAfter
    /\ UNCHANGED <<submitted_batches, blinded_batches>>

NextRaise == AssignGranted \/ PostTheBlinds \/ ActRaise \/ Advance

SpecRaise == InitRaise /\ [][NextRaise]_vars

(***************************************************************************)
(* A whole heads-up hand, from start_game to the last stage                *)
(***************************************************************************)

\* The table of the whole-hand specification.
HandTable == Table(2, 1, 2, 2)

InitHand == HandStart(HandTable)

\* Values of Clock::slot when generate_offset runs in this hand.
HandSlots == {258}

RevealHand ==
    /\ \E slot \in HandSlots : GenerateOffset(slot)
    /\ UNCHANGED history

NextHand ==
    Submit \/ Blind \/ RevealHand \/ AssignGranted \/ PostTheBlinds \/ Act \/ Advance

SpecHand == InitHand /\ [][NextHand]_vars

(***************************************************************************)
(* Properties                                                              *)
(***************************************************************************)

RECURSIVE SumTotalBet(_)
SumTotalBet(S) ==
    IF S = {} THEN 0
    ELSE LET s == CHOOSE x \in S : TRUE
         IN  seats[s].total_bet + SumTotalBet(S \ {s})

\* C1: in every reachable state of a hand the pot equals the sum of
\* total_bet over the seats of the hand.
C1_PotEqualsTotalBets == pot = SumTotalBet(DOMAIN seats)

\* C2: a deal_cards call made while cards_submitted, offset_applied or the
\* position offset is missing fails: deal_cards succeeds only when all
\* three are set.
C2_DealNeedsAllThree ==
    \A s \in 0..(MAX_SEATS - 1) : \A b \in BuyIns :
        ~(cards_submitted /\ offset_applied /\ position_offset # 0)
            => DealCardsErr(s, b) # "Ok"

\* C3: a submit_cards call for a batch index already submitted in this hand
\* fails; once all three batches have landed no submit_cards call succeeds.
C3_NoResubmission ==
    /\ \A b \in submitted_batches : SubmitCardsErr(b) # "Ok"
    /\ cards_submitted => \A b \in BatchIndexes : SubmitCardsErr(b) # "Ok"

\* C4: once generate_offset has succeeded no instruction changes a slot of
\* card_pool, so every ciphertext is written before the offset is known.
C4_CommitPrecedesReveal ==
    [][position_offset # 0 => card_pool' = card_pool]_vars

\* C5: every hole-card handle a seat holds is an ingested ciphertext
\* combined with the hand's encrypted offset exactly once, never the raw
\* ingested ciphertext.
C5_HoleCardsBlindedOnce ==
    \A s \in DOMAIN seats :
        /\ IsBlindedOnce(seats[s].hole_card_1, encrypted_offset)
        /\ IsBlindedOnce(seats[s].hole_card_2, encrypted_offset)

\* C6: a successful deal_cards for seat s grants decrypt permission to the
\* player of seat s on exactly the two handles of the seat and grants
\* nothing else.
C6_DealGrantsBothHandles ==
    [][\A s \in 0..(MAX_SEATS - 1) :
          (s \notin DOMAIN seats /\ s \in DOMAIN seats')
              => allowed' = allowed \cup
                    { <<seats'[s].hole_card_1, seats'[s].player>>,
                      <<seats'[s].hole_card_2, seats'[s].player>> }]_vars

\* C7 as stated: like C7_OffsetGeneratedOnce, but a second call always
\* fails with PositionOffsetAlreadySet.
C7_SecondCallAlreadySet ==
    position_offset # 0 => GenerateOffsetErr = "PositionOffsetAlreadySet"

\* C7 (amended): generate_offset succeeds at most once per hand and only
\* when cards_submitted and offset_applied hold; a call before blinding
\* completes fails with CardsNotSubmitted or OffsetNotApplied; a second call
\* fails with PositionOffsetAlreadySet while the stage is Waiting and with
\* InvalidGameStage afterwards; position_offset never changes once set.
C7_OffsetGeneratedOnce ==
    /\ [](/\ ~cards_submitted => GenerateOffsetErr = "CardsNotSubmitted"
          /\ (cards_submitted /\ ~offset_applied)
                => GenerateOffsetErr = "OffsetNotApplied"
          /\ position_offset # 0
                => GenerateOffsetErr =
                     (IF stage = "Waiting" THEN "PositionOffsetAlreadySet"
                      ELSE "InvalidGameStage"))
    /\ [][/\ position_offset' # position_offset
             => (cards_submitted /\ offset_applied /\ position_offset = 0
                 /\ position_offset' \in 1..10)
          /\ position_offset # 0 => position_offset' = position_offset]_vars

\* A second generate_offset call after dealing has moved the stage on.
C7_Witness ==
    /\ position_offset # 0
    /\ stage = "PreFlop"
    /\ GenerateOffsetErr = "InvalidGameStage"

C9_BlindTwiceKeepsPool ==
    [][(last'.op = "apply_offset_batch" /\ last'.arg \in blinded_batches)
          => (card_pool' = card_pool /\ cards_offset_mask' = cards_offset_mask)]_vars

\* Batch 0 has just been applied again after batch 1 was blinded.
C9_Witness ==
    /\ last.op = "apply_offset_batch"
    /\ last.arg = 0
    /\ 1 \in blinded_batches
    /\ offset_applied = FALSE

\* C10: re-invoking apply_offset_batch(k) for a batch k that already
\* completed leaves every field of the game unchanged, offset_batch included.
C10_RetryChangesNothing ==
    [][(last'.op = "apply_offset_batch" /\ last'.arg \in blinded_batches)
          => game' = game]_vars

\* C11: blind batches complete in order 0, 1, 2: a successful
\* apply_offset_batch(k) for k = 1, 2 happens only after a successful
\* apply_offset_batch(k - 1), and while blinding is open a call for a batch
\* whose predecessor has not succeeded fails with BatchOutOfOrder.
C11_BatchesInOrder ==
    /\ [](\A k \in {1, 2} :
            (k - 1) \notin blinded_batches =>
                /\ ApplyOffsetBatchErr(k) # "Ok"
                /\ cards_submitted => ApplyOffsetBatchErr(k) = "BatchOutOfOrder")
    /\ [][(last'.op = "apply_offset_batch" /\ last'.arg \in {1, 2}
           /\ blinded_batches' # blinded_batches)
              => (last'.arg - 1) \in blinded_batches]_vars

\* Batch 1 has just been blinded for the first time, after batch 0.
C11_Witness ==
    /\ last.op = "apply_offset_batch"
    /\ last.arg = 1
    /\ blinded_batches = {0, 1}
    /\ ApplyOffsetBatchErr(2) = "Ok"

\* C12: offset_batch is one of 0, 1, 2, 255, and it is 255 exactly when
\* offset_applied holds and all 15 bits of cards_offset_mask are set.
C12_OffsetBatchRange ==
    /\ offset_batch \in {0, 1, 2, 255}
    /\ offset_batch = 255 <=> (offset_applied /\ cards_offset_mask = 32767)

\* The third batch has completed the blinding.
C12_Witness ==
    /\ offset_batch = 255
    /\ last.op = "apply_offset_batch"
    /\ last.arg = 2

\* The stages in their order.
StageOrder == <<"Waiting", "PreFlop", "Flop", "Turn", "River", "Showdown", "Finished">>

StageRank(s) == CHOOSE i \in 1..Len(StageOrder) : StageOrder[i] = s

\* C13: the stage never moves to an earlier stage; every change of stage is
\* a step to the immediate successor or a jump to Showdown taken when
\* players_remaining is 1.
C13_StageMonotone ==
    [][stage' # stage =>
          /\ stage \in Stages /\ stage' \in Stages
          /\ StageRank(stage') > StageRank(stage)
          /\ \/ StageRank(stage') = StageRank(stage) + 1
             \/ stage' = "Showdown" /\ players_remaining' = 1]_vars

\* A fold before the flop has left one player: the hand jumped from
\* PreFlop to Showdown.
C13_Witness ==
    /\ stage = "Showdown"
    /\ players_remaining = 1
    /\ last.act = "Fold"
    /\ community_revealed = 0

\* C14: advance_stage called while the stage is Waiting or Finished fails
\* with InvalidGameStage, so no advance_stage step leaves such a state.
C14_AdvanceRefused ==
    /\ [](stage \in {"Waiting", "Finished"} => AdvanceStageErr = "InvalidGameStage")
    /\ [][(stage \in {"Waiting", "Finished"}) => last'.op # "advance_stage"]_vars

\* The hand is finished and advance_stage is refused.
C14_Witness ==
    /\ stage = "Finished"
    /\ last.op = "advance_stage"
    /\ AdvanceStageErr = "InvalidGameStage"

\* C15: whenever a successful Fold reduces players_remaining to 1 the stage
\* is Showdown right after it, whatever the betting stage and however many
\* seats have not acted; in a 3-seat hand two folds in sequence do so.
C15_SingleSurvivor ==
    [][(last'.op = "player_action" /\ last'.act = "Fold"
        /\ players_remaining' = players_remaining - 1 /\ players_remaining' = 1)
          => (stage \in {"PreFlop", "Flop", "Turn", "River"} /\ stage' = "Showdown")]_vars

\* Two folds in a 3-seat hand: the survivor has not acted.
C15_Witness ==
    /\ player_count = 3
    /\ last.op = "player_action" /\ last.act = "Fold"
    /\ players_remaining = 1
    /\ stage = "Showdown"
    /\ \E s \in DOMAIN seats : is_active(s) /\ ~seats[s].has_acted

\* The seats that owe the small and the big blind.
SmallBlindSeat == (dealer_position + 1) % player_count

BigBlindSeat == (dealer_position + 2) % player_count

\* C16: post_blinds succeeds at most once per hand and only in PreFlop: for
\* the two blind seats a call in another stage fails with InvalidGameStage
\* and a call in PreFlop after a successful post_blinds fails with
\* BlindsAlreadyPosted; no call succeeds once blinds are posted.
C16_BlindsPostedOnce ==
    /\ [](\A sb, bb \in 0..(MAX_SEATS - 1) :
            /\ PostBlindsErr(sb, bb) = "Ok" => (stage = "PreFlop" /\ blinds_posted = 0)
            /\ blinds_posted # 0 => PostBlindsErr(sb, bb) # "Ok"
            /\ (sb \in DOMAIN seats /\ bb \in DOMAIN seats
                /\ sb = SmallBlindSeat /\ bb = BigBlindSeat) =>
                  /\ stage # "PreFlop" => PostBlindsErr(sb, bb) = "InvalidGameStage"
                  /\ (stage = "PreFlop" /\ blinds_posted # 0)
                        => PostBlindsErr(sb, bb) = "BlindsAlreadyPosted")
    /\ [][/\ last'.op = "post_blinds"
                => (stage = "PreFlop" /\ blinds_posted = 0 /\ blinds_posted' # 0)
          /\ blinds_posted # 0 => blinds_posted' = blinds_posted]_vars

\* The blinds are posted and a second call in PreFlop is refused.
C16_Witness ==
    /\ last.op = "post_blinds"
    /\ stage = "PreFlop"
    /\ PostBlindsErr(SmallBlindSeat, BigBlindSeat) = "BlindsAlreadyPosted"

\* C17: a successful post_blinds takes min(small_blind, chips) from the seat
\* at dealer + 1 and min(2 * small_blind, chips) from the seat at dealer + 2
\* (modulo player_count), adds both to the pot, sets current_bet and
\* last_raise_amount to the big blind posted and last_raiser to the big-blind
\* seat, and leaves has_acted false on both seats.
C17_BlindsEffect ==
    [][last'.op = "post_blinds" =>
          LET sbs == (dealer_position + 1) % player_count
              bbs == (dealer_position + 2) % player_count
              sba == IF table.small_blind <= seats[sbs].chips
                     THEN table.small_blind ELSE seats[sbs].chips
              bba == IF 2 * table.small_blind <= seats[bbs].chips
                     THEN 2 * table.small_blind ELSE seats[bbs].chips
          IN  /\ seats'[sbs].chips = seats[sbs].chips - sba
              /\ seats'[bbs].chips = seats[bbs].chips - bba
              /\ pot' = pot + sba + bba
              /\ current_bet' = bba
              /\ last_raise_amount' = bba
              /\ last_raiser' = bbs
              /\ ~seats'[sbs].has_acted /\ ~seats'[bbs].has_acted]_vars

\* The blinds are posted and the big-blind seat was short of the big blind.
C17_Witness ==
    /\ last.op = "post_blinds"
    /\ current_bet < 2 * table.small_blind
    /\ seats[BigBlindSeat].chips = 0

\* Some seat of the hand is neither folded nor all-in.
AnyActive == \E i \in 0..(player_count - 1) : is_active(i)

\* The first active seat in the cyclic order a + 1, a + 2, ... .
FirstActiveAfter(a) ==
    LET k == CHOOSE k \in 1..player_count :
                /\ is_active((a + k) % player_count)
                /\ \A j \in 1..(k - 1) : ~is_active((a + j) % player_count)
    IN  (a + k) % player_count

\* C18: after post_blinds action_on is the first active seat after the
\* big-blind seat (seat 3 in a 4-seat hand with dealer 0 and every seat
\* active); after a successful player_action by seat a, if an active seat
\* exists, action_on is the first active seat in the order a + 1, a + 2, ...
\* modulo player_count.
C18_RoundRobin ==
    /\ (last.op = "post_blinds" /\ AnyActive)
          => action_on = FirstActiveAfter(BigBlindSeat)
    /\ (last.op = "post_blinds" /\ player_count = 4 /\ dealer_position = 0
        /\ folded_mask = 0 /\ all_in_mask = 0)
          => action_on = 3
    /\ (last.op = "player_action" /\ AnyActive)
          => action_on = FirstActiveAfter(last.arg)

\* Seat 3 has acted after the blinds; the turn wrapped past the folded
\* seat 0 to seat 1.
C18_Witness ==
    /\ player_count = 4
    /\ blinds_posted # 0
    /\ last.op = "player_action" /\ last.arg = 3
    /\ is_folded(0)
    /\ action_on = 1

\* The seat passes the tests player_action makes before it looks at the
\* action.
MayAct(s) ==
    /\ seats[s].seat_index = action_on
    /\ ~is_folded(seats[s].seat_index)
    /\ ~is_all_in(seats[s].seat_index)
    /\ stage \in {"PreFlop", "Flop", "Turn", "River"}

\* The least raise the claim states.
LeastRaise == IF last_raise_amount > 0 THEN last_raise_amount ELSE current_bet

\* What the seat owes to match the bet.
Owed(s) ==
    IF current_bet > seats[s].current_bet THEN current_bet - seats[s].current_bet ELSE 0

\* C19: a Raise with raise_amount below last_raise_amount (when it is
\* positive) or below current_bet (when no raise was made in the round)
\* fails with RaiseTooSmall; with current_bet = 20 and last_raise_amount = 20
\* a raise of 10 fails and a raise of 20 by a seat with enough chips succeeds
\* and sets last_raise_amount = 20.
C19_MinimumRaise ==
    /\ [](\A s \in DOMAIN seats :
            /\ \A r \in RaiseAmounts :
                  /\ (MayAct(s) /\ r < LeastRaise)
                        => PlayerActionErr(s, 3, r) = "RaiseTooSmall"
                  /\ PlayerActionErr(s, 3, r) = "Ok" => r >= LeastRaise
            /\ (MayAct(s) /\ current_bet = 20 /\ last_raise_amount = 20) =>
                  /\ PlayerActionErr(s, 3, 10) = "RaiseTooSmall"
                  /\ Owed(s) + 20 <= seats[s].chips => PlayerActionErr(s, 3, 20) = "Ok")
    /\ [][(last'.op = "player_action" /\ last'.act = "Raise") =>
              /\ last'.amt >= LeastRaise
              /\ last_raise_amount' = last'.amt]_vars

\* A raise of 20 over the big blind of 20 has succeeded.
C19_Witness ==
    /\ blinds_posted # 0
    /\ last.op = "player_action" /\ last.act = "Raise" /\ last.amt = 20
    /\ last_raise_amount = 20
    /\ current_bet = 40

\* C20: player_action succeeds only if the seat's index equals action_on,
\* the seat is neither folded nor all-in and the stage is PreFlop, Flop,
\* Turn or River; otherwise it fails with NotYourTurn, PlayerFolded,
\* PlayerAlreadyActed or InvalidGameStage (the first test that fails, in
\* this order), and a Check fails with CannotCheck when current_bet exceeds
\* the seat's current_bet.
C20_ActionLegality ==
    \A s \in DOMAIN seats : \A a \in 0..4 : \A r \in 0..MaxRaise :
        LET e == PlayerActionErr(s, a, r)
            turn == seats[s].seat_index = action_on
            folded == seats[s].is_folded
            all_in == seats[s].is_all_in
            betting == stage \in {"PreFlop", "Flop", "Turn", "River"}
        IN  /\ e = "Ok" => (turn /\ ~folded /\ ~all_in /\ betting)
            /\ ~turn => e = "NotYourTurn"
            /\ (turn /\ folded) => e = "PlayerFolded"
            /\ (turn /\ ~folded /\ all_in) => e = "PlayerAlreadyActed"
            /\ (turn /\ ~folded /\ ~all_in /\ ~betting) => e = "InvalidGameStage"
            /\ (turn /\ ~folded /\ ~all_in /\ betting /\ a = 1
                /\ current_bet > seats[s].current_bet) => e = "CannotCheck"

\* After the blinds and a first action: the seat to act cannot check and
\* the other seat is out of turn.
C20_Witness ==
    /\ blinds_posted # 0
    /\ stage = "PreFlop"
    /\ last.op = "player_action"
    /\ action_on \in DOMAIN seats
    /\ PlayerActionErr(action_on, 1, 0) = "CannotCheck"
    /\ \E s \in DOMAIN seats : PlayerActionErr(s, 2, 0) = "NotYourTurn"

C22_SeatsResetEachRound ==
    (last.op = "advance_stage" /\ stage \in {"Flop", "Turn", "River"}) =>
        \A s \in DOMAIN seats :
            ~seats[s].is_folded => (seats[s].current_bet = 0 /\ ~seats[s].has_acted)

\* C23: community_revealed is 0 in Waiting and PreFlop, the low 3 bits in
\* Flop, the low 4 bits in Turn and the low 5 bits in River.
C23_RevealedMatchesStage ==
    /\ stage \in {"Waiting", "PreFlop"} => community_revealed = 0
    /\ stage = "Flop" => community_revealed = 7
    /\ stage = "Turn" => community_revealed = 15
    /\ stage = "River" => community_revealed = 31

\* C24: the stage is Waiting exactly while cards_dealt_count is below
\* player_count; every seat index below player_count is dealt at most once;
\* the deal_cards call that makes cards_dealt_count equal player_count moves
\* the stage to PreFlop, and from then on deal_cards fails.
C24_DealingCompletes ==
    /\ [](/\ stage = "Waiting" <=> cards_dealt_count < player_count
          /\ cards_dealt_count = Cardinality(DOMAIN seats)
          /\ DOMAIN seats \subseteq 0..(player_count - 1)
          /\ stage # "Waiting" =>
                \A s \in 0..MAX_SEATS : \A b \in BuyIns : DealCardsErr(s, b) # "Ok")
    /\ [][last'.op = "deal_cards" =>
              /\ last'.arg \notin DOMAIN seats
              /\ cards_dealt_count' = cards_dealt_count + 1
              /\ cards_dealt_count' = player_count => (stage = "Waiting" /\ stage' = "PreFlop")]_vars

\* The last seat has just been dealt.
C24_Witness ==
    /\ last.op = "deal_cards"
    /\ cards_dealt_count = player_count
    /\ player_count = 3
    /\ stage = "PreFlop"

C26_ShortBlindIsAllIn ==
    last.op = "post_blinds" =>
        \A s \in {SmallBlindSeat, BigBlindSeat} :
            seats[s].chips = 0 => (seats[s].is_all_in /\ Bit(all_in_mask, s))

\* C27: no player_action succeeds in PreFlop while blinds_posted is 0, so
\* post_blinds runs on seats whose current_bet and total_bet are 0.
C27_BlindsPrecedeBetting ==
    [][/\ (last'.op = "player_action" /\ stage = "PreFlop") => blinds_posted # 0
       /\ last'.op = "post_blinds" =>
             \A s \in DOMAIN seats :
                 seats[s].current_bet = 0 /\ seats[s].total_bet = 0]_vars

\* C28: in every betting state with an active seat and
\* players_acted >= active_player_count, every active seat has acted and
\* has current_bet equal to the game's current_bet.
C28_RoundCompleteSignal ==
    (stage \in {"PreFlop", "Flop", "Turn", "River"} /\ AnyActive
     /\ players_acted >= active_player_count) =>
        \A s \in DOMAIN seats :
            is_active(s) => (seats[s].has_acted /\ seats[s].current_bet = current_bet)

\* C30: advance_stage never succeeds while more than one player remains and
\* some active seat has not acted or has current_bet below current_bet.
C30_AdvanceAfterRound ==
    [][(last'.op = "advance_stage" /\ players_remaining > 1) =>
          \A s \in DOMAIN seats :
              is_active(s) => (seats[s].has_acted /\ ~(seats[s].current_bet < current_bet))]_vars

\* C29: a successful AllIn moves the seat's whole stack to its current_bet,
\* its total_bet and the pot, leaves it 0 chips and sets its all-in flag and
\* mask bit; if its new current_bet exceeds the game's current_bet, the
\* game's current_bet becomes that bet, last_raiser the seat,
\* last_raise_amount the difference and players_acted 1; otherwise these
\* three are unchanged and players_acted grows by 1.
C29_AllInEffect ==
    [][(last'.op = "player_action" /\ last'.act = "AllIn") =>
          LET s == last'.arg
              stack == seats[s].chips
              bet == seats[s].current_bet + stack
          IN  /\ seats'[s].chips = 0
              /\ seats'[s].current_bet = bet
              /\ seats'[s].total_bet = seats[s].total_bet + stack
              /\ pot' = pot + stack
              /\ seats'[s].is_all_in
              /\ Bit(all_in_mask', s)
              /\ IF bet > current_bet
                 THEN /\ current_bet' = bet
                      /\ last_raiser' = s
                      /\ last_raise_amount' = bet - current_bet
                      /\ players_acted' = 1
                 ELSE /\ current_bet' = current_bet
                      /\ last_raiser' = last_raiser
                      /\ last_raise_amount' = last_raise_amount
                      /\ players_acted' = players_acted + 1]_vars

\* An all-in over the big blind: it counts as a raise.
C29_Witness ==
    /\ blinds_posted # 0
    /\ last.op = "player_action" /\ last.act = "AllIn"
    /\ last_raiser = last.arg
    /\ players_acted = 1
    /\ current_bet = seats[last.arg].current_bet
    /\ current_bet > 2 * table.small_blind

\* C31: the encrypted blinding offset is drawn once per hand: the only
\* step that draws is the first successful apply_offset_batch(0), and that
\* step does draw; encrypted_offset never changes after it, whatever
\* batches are retried or re-ordered; and every slot apply_offset_batch
\* marks is combined, in that step, with that one offset, all 15 of them
\* by the time blinding is complete.
C31_OffsetDrawnOnce ==
    /\ [](/\ rand_draws <= 1
          /\ (0 \in blinded_batches) => (rand_draws = 1 /\ encrypted_offset = ERand(1))
          /\ offset_applied => cards_offset_mask = ALL_CARDS_MASK)
    /\ [][/\ rand_draws' # rand_draws =>
                /\ last'.op = "apply_offset_batch" /\ last'.arg = 0
                /\ 0 \notin blinded_batches
                /\ encrypted_offset' = ERand(1)
          /\ (0 \in blinded_batches) => encrypted_offset' = encrypted_offset
          /\ (0 \notin blinded_batches) =>
                (encrypted_offset' # encrypted_offset <=> rand_draws' # rand_draws)
          /\ \A i \in 0..(POOL_SIZE - 1) :
                (Bit(cards_offset_mask', i) /\ ~Bit(cards_offset_mask, i)) =>
                    /\ last'.op = "apply_offset_batch"
                    /\ card_pool'[i] = EAdd(card_pool[i], ERand(1))
                    /\ encrypted_offset' = ERand(1)]_vars

\* Batch 0 has just been retried after batch 1: the marker is back at 1 and
\* the offset is still the first draw.
C31_Witness ==
    /\ last.op = "apply_offset_batch"
    /\ last.arg = 0
    /\ blinded_batches = {0, 1}
    /\ offset_batch = 1
    /\ rand_draws = 1
    /\ encrypted_offset = ERand(1)

\* C32: in every betting stage (PreFlop, Flop, Turn, River) game.current_bet
\* equals the highest current_bet of the seats of the hand: no seat's
\* current_bet is above it and some seat's current_bet equals it.
C32_CurrentBetIsHighest ==
    stage \in {"PreFlop", "Flop", "Turn", "River"} =>
        /\ \A s \in DOMAIN seats : seats[s].current_bet <= current_bet
        /\ \E s \in DOMAIN seats : seats[s].current_bet = current_bet

\* C33: a successful advance_stage in Showdown always yields Finished, so
\* that repeated advance_stage calls drive every hand to Finished.
C33_ShowdownAdvanceFinishes ==
    [][(last'.op = "advance_stage" /\ stage = "Showdown") => stage' = "Finished"]_vars

\* The pool slots whose handle a seat holds as a hole card.
DealtSlots(s) ==
    {i \in 0..(POOL_SIZE - 1) : card_pool[i] \in {seats[s].hole_card_1, seats[s].hole_card_2}}

\* C34: the hole-card slots deal_cards assigns lie in 0..9 and the slot
\* pairs of distinct seats are disjoint: no pool slot is dealt to two seats
\* and none is taken from the community slots 10..14.
C34_DealtSlotsDisjoint ==
    /\ \A s \in DOMAIN seats : DealtSlots(s) \subseteq 0..(HOLE_SLOTS - 1)
    /\ \A s, t \in DOMAIN seats : s # t => DealtSlots(s) \cap DealtSlots(t) = {}

\* C35: in every betting stage (PreFlop, Flop, Turn, River) with at least
\* one seat that is neither folded nor all-in, action_on is the index of
\* such a seat below player_count, and that seat has a player_action the
\* program accepts.
C35_ActionOnActiveSeat ==
    (stage \in {"PreFlop", "Flop", "Turn", "River"} /\ AnyActive) =>
        /\ action_on < player_count
        /\ is_active(action_on)
        /\ \E action \in 0..4 : PlayerActionErr(action_on, action, 0) = "Ok"

\* The turn has just passed over a seat that cannot act: the seat after the
\* one that acted is folded or all-in, and another seat is to act.
C35_Witness ==
    /\ stage \in {"PreFlop", "Flop", "Turn", "River"}
    /\ last.op = "player_action"
    /\ ~is_active((last.arg + 1) % player_count)
    /\ is_active(action_on)
    /\ action_on # last.arg

====
